---- MODULE Spec2Model ----
(***************************************************************************)
(* The todo relay backend: three variants of one Express script            *)
(* (src/server.js, src/unnamed/part_000, src/unnamed/part_001).            *)
(*                                                                         *)
(* A run is one process executing one of the three scripts: module load    *)
(* (Firebase Admin credential resolution, configuration constants,         *)
(* app.listen) and then HTTP requests.  A handler is an async function:    *)
(* the code between two awaits runs atomically on the event loop, so each  *)
(* action below is one such segment (the middleware chain plus the         *)
(* handler's synchronous prefix, or a continuation after an await).        *)
(*                                                                         *)
(* JavaScript strings built by template literals are modelled as           *)
(* sequences of tokens (the literal pieces and the interpolated values),   *)
(* so "the message contains the text" is a fact about the construction.    *)
(***************************************************************************)
EXTENDS Integers, Sequences, FiniteSets, TLC

VARIABLES
    variant,            \* which of the three scripts this process runs
    proc,               \* position of module load: "start", "fallback", "initialized", "listening", "exited"
    exitCode,           \* argument of process.exit, -1 while the process lives
    attempted,          \* credential sources consulted so far, in order
    credential,         \* the source admin.initializeApp succeeded with, or "none"
    SLACK_WEBHOOK_URL,  \* the configuration constant of the running script
    req,                \* the request being served, or the last one served
    arrived,            \* number of requests received so far
    webhookPosts,       \* number of POSTs the chat webhook has received so far
    passed,             \* history: notify requests so far that passed validation
    repeatOf            \* history: the outbound calls of the previous request when
                        \* the current one repeats it

vars == <<variant, proc, exitCode, attempted, credential, SLACK_WEBHOOK_URL, req,
          arrived, webhookPosts, passed, repeatOf>>

----------------------------------------------------------------------------
(* Bounds of the model *)

\* requests per run.  The handlers share no mutable state (the configuration
\* constants are only read), so requests are served one after another here.
MaxRequests == 3

----------------------------------------------------------------------------
(* Values *)

Variants == {"server.js", "part_000", "part_001"}

\* JavaScript's undefined (a destructured field the body does not carry, an unset
\* environment variable, a header that was not sent)
Undefined == "<undefined>"

Placeholder == "YOUR_SLACK_WEBHOOK_URL_HERE"
HardCodedUrlServer == "https://hooks.slack.com/services/T08TFHXPW0J/B08TL0WAANR"
HardCodedUrl001 == "https://hooks.slack.com/services/T08TFHXPW0J/B08T8QP0UJJ"
EnvUrl == "https://hooks.slack.com/services/ENV"

\* what process.env.SLACK_WEBHOOK_URL may hold
EnvSlackUrls == {Undefined, "", Placeholder, EnvUrl}

\* JavaScript truthiness of a string-or-undefined value
Falsy(x) == x \in {Undefined, ""}

\* `${x}` inside a template literal
Str(x) == IF x = Undefined THEN "undefined" ELSE x

\* a || b
OrElse(a, b) == IF Falsy(a) THEN b ELSE a

\* token t occurs in the built string s
Contains(s, t) == \E i \in 1..Len(s) : s[i] = t

\* a plain string value as a built string (the empty string has no tokens)
Val(x) == IF x = "" THEN <<>> ELSE <<x>>

\* `${x}` as a piece of a built string
T(x) == Val(Str(x))

----------------------------------------------------------------------------
(* Inputs: what a client may send and what the upstream services may answer *)

AllowedOrigin == "http://localhost:3000"
OtherOrigin == "https://evil.example"
Origins == {Undefined, AllowedOrigin, OtherOrigin}

Routes == {"/summarize-single-todo", "/send-single-todo-to-slack"}

Texts == {Undefined, "", "Buy milk"}
Dues == {<<Undefined, Undefined>>, <<"2024-01-01", "09:00">>}
Summaries == {Undefined, "Get milk today"}
BodyUserIds == {Undefined, "u-body"}
HeaderUserIds == {Undefined, "u-header"}
UserAgents == {"curl/8.0"}

\* req.body before bodyParser ran
NoBody == [text |-> Undefined, dueDate |-> Undefined, dueTime |-> Undefined,
           summary |-> Undefined, userId |-> Undefined]

\* The user ids are varied on the bodies that carry the text "Buy milk" and no due
\* date, and on the requests that carry no Origin; all other fields are varied on
\* requests without user ids.
SummarizeBodies ==
    { [text |-> t, dueDate |-> d[1], dueTime |-> d[2], summary |-> Undefined, userId |-> Undefined] :
        t \in Texts, d \in Dues }
    \cup
    { [text |-> "Buy milk", dueDate |-> Undefined, dueTime |-> Undefined,
       summary |-> Undefined, userId |-> u] : u \in BodyUserIds }

NotifyBodies ==
    { [text |-> t, dueDate |-> d[1], dueTime |-> d[2], summary |-> s, userId |-> Undefined] :
        t \in Texts, d \in Dues, s \in Summaries }
    \cup
    { [text |-> "Buy milk", dueDate |-> Undefined, dueTime |-> Undefined,
       summary |-> s, userId |-> u] : s \in Summaries, u \in BodyUserIds }

BodiesOf(route) == IF route = "/summarize-single-todo" THEN SummarizeBodies ELSE NotifyBodies

NoHeaders == [origin |-> Undefined, xUserId |-> Undefined, userAgent |-> Undefined]

HeaderSets ==
    { [origin |-> o, xUserId |-> Undefined, userAgent |-> a] : o \in Origins, a \in UserAgents }
    \cup
    { [origin |-> Undefined, xUserId |-> x, userAgent |-> a] :
        x \in HeaderUserIds, a \in UserAgents }

\* Answers of the generative-text endpoint.  "candidates": 2xx with
\* candidates[0].content.parts[0].text = text; "noCandidates": 2xx without the nested
\* fields; "httpError": non-2xx whose body is {error: {message: text}};
\* "networkError": no response, text is the transport error's message.
\* "blocked": 2xx without candidates but with promptFeedback (the prompt was refused).
NoLLMReply == [kind |-> "none", text |-> ""]
LLMReplies ==
    { [kind |-> "candidates",   text |-> "Buy milk by Jan 1."],
      [kind |-> "candidates",   text |-> ""],
      [kind |-> "noCandidates", text |-> ""],
      [kind |-> "blocked",      text |-> ""],
      [kind |-> "httpError",    text |-> "API key not valid"],
      [kind |-> "networkError", text |-> "connect ECONNREFUSED"] }

LLMFailed(reply) == reply.kind \in {"httpError", "networkError"}

\* Answers of the chat webhook: a status and a text body, or no response at all
NoSlackReply == [kind |-> "none", status |-> 0, body |-> ""]
SlackReplies ==
    { [kind |-> "ok",           status |-> 200, body |-> "ok"],
      [kind |-> "rejected",     status |-> 404, body |-> "no_service"],
      [kind |-> "networkError", status |-> 0,   body |-> "socket hang up"] }

----------------------------------------------------------------------------
(* Module load: credential resolution and configuration *)

\* the sources each script consults, in the order it consults them
CredentialSources(v) ==
    IF v = "part_000" THEN <<"env">> ELSE <<"default", "file">>

\* const SLACK_WEBHOOK_URL = ... of each script, given process.env.SLACK_WEBHOOK_URL
WebhookUrl(v, env) ==
    CASE v = "server.js" -> HardCodedUrlServer
      [] v = "part_001"  -> OrElse(env, HardCodedUrl001)
      [] OTHER           -> env

\* if (!SLACK_WEBHOOK_URL || SLACK_WEBHOOK_URL === 'YOUR_SLACK_WEBHOOK_URL_HERE')
WebhookUnconfigured(url) == Falsy(url) \/ url = Placeholder

----------------------------------------------------------------------------
(* Cross-origin policy *)

allowedOrigins == <<"http://localhost:3000",
                    "https://frontefront-7m2yrofu6-lokeshas-projects.vercel.app">>

\* allowedOrigins.indexOf(origin) === -1
NotInAllowList(origin) == \A i \in 1..Len(allowedOrigins) : allowedOrigins[i] # origin

\* mutant of originCallback: the allow-list test is dropped
originCallbackNoListCheck(origin) == TRUE

\* the origin callback handed to cors(): TRUE when it calls back with (null, true),
\* FALSE when it calls back with an Error
originCallback(origin) ==
    IF Falsy(origin) THEN TRUE
    ELSE IF NotInAllowList(origin) THEN FALSE
    ELSE TRUE

\* app.use(cors(...)) of each script
CorsAllows(v, origin) ==
    IF v = "part_000" THEN originCallback(origin) ELSE TRUE

\* req.userId = req.headers['x-user-id'] || 'anonymous'
ResolveUserId(headers) == OrElse(headers.xUserId, "anonymous")

----------------------------------------------------------------------------
(* Strings the handlers build *)

SummarizePromptHead(v) ==
    CASE v = "server.js" -> "Summarize the following todo item: \""
      [] v = "part_000"  -> "Description Answer and Summarize the following todo item: \""
      [] OTHER           -> "Description Answer and Summarize  the following todo item: \""

SummarizePromptTail(v) ==
    CASE v = "server.js" -> ". Provide a concise summary of approximately 4 to 5 lines, between 100 and 299 words, and ensure it is action-oriented."
      [] v = "part_000"  -> ". Provide a concise answer and summary of approximately 2 to 3 lines, between 100 and 299 words. Format the summary as a bulleted list, ensuring each point is action-oriented."
      [] OTHER           -> ". Provide a concise answer and summary of approximately 2 to 3 line answer and summary 4 to 5 lines, between 100 and 299 words. Format the summary as a bulleted list, ensuring each point is action-oriented."

\* the prompt of /summarize-single-todo
SummarizePrompt(v, body) ==
    <<SummarizePromptHead(v)>> \o T(body.text) \o <<"\"">>
      \o (IF Falsy(body.dueDate) THEN <<>> ELSE <<" due on ", body.dueDate>>)
      \o (IF Falsy(body.dueTime) THEN <<>> ELSE <<" at ", body.dueTime>>)
      \o <<SummarizePromptTail(v)>>

\* the prompt of the inline summarization of /send-single-todo-to-slack (part_000)
NotifyPrompt(body) ==
    <<"Summarize the following single to-do item for a Slack message. Keep it concise and action-oriented. Include the due date/time if provided.\n      To-do: \"">>
      \o T(body.text)
      \o <<"\"\n      Due Date: ">> \o T(OrElse(body.dueDate, "Not specified"))
      \o <<"\n      Due Time: ">> \o T(OrElse(body.dueTime, "Not specified"))

StaticFallback == "Could not generate a meaningful summary for this todo."

\* finalSummary = `Could not generate summary for: "${text}".`
FallbackSummary(text) ==
    <<"Could not generate summary for: \"">> \o T(text) \o <<"\".">>

NoSlackMessage == [text |-> <<>>, header |-> <<>>, todo |-> <<>>, summary |-> <<>>, context |-> <<>>]

\* slackMessage of server.js and part_001: { text: slackMessage }
FlatSlackMessage(body) ==
    [NoSlackMessage EXCEPT !.text =
        <<"*New Todo Alert for User ">> \o T(body.userId) \o <<"*:\n">>
          \o <<"*Task*: ">> \o T(body.text) \o <<"\n">>
          \o (IF Falsy(body.dueDate) THEN <<>> ELSE <<"*Due Date*: ", body.dueDate, "\n">>)
          \o (IF Falsy(body.dueTime) THEN <<>> ELSE <<"*Due Time*: ", body.dueTime, "\n">>)
          \o (IF Falsy(body.summary) THEN <<"_No summary provided._\n">>
              ELSE <<"*Summary*: ", body.summary, "\n">>)]

\* slackMessage of part_000: the text and the three blocks (the header's code
\* quotes around the user id are written ' here)
BlockSlackMessage(body, userAgent, finalSummary) ==
    [text    |-> <<"*New Todo Update from ">> \o T(body.userId) \o <<" (">> \o T(userAgent)
                   \o <<"):*\n">> \o finalSummary,
     header  |-> <<"*New Todo Update from '">> \o T(body.userId) \o <<"'*:">>,
     todo    |-> <<"*Todo:*\n">> \o T(body.text),
     summary |-> <<"*Summary:*\n">> \o finalSummary,
     context |-> <<"*Due:* ">> \o T(OrElse(body.dueDate, "N/A")) \o <<" ">>
                   \o T(OrElse(body.dueTime, "N/A")) \o <<" | *Sent by:* ">> \o T(userAgent)]

----------------------------------------------------------------------------
(* Requests and responses *)

NoJson == [kind |-> "none", message |-> <<>>, summary |-> <<>>, error |-> <<>>]

\* res.json({ message, summary })
JsonSummary(message, summary) == [NoJson EXCEPT !.kind = "summary", !.message = <<message>>, !.summary = summary]
\* res.json({ message })
JsonMessage(message) == [NoJson EXCEPT !.kind = "message", !.message = <<message>>]
\* res.json({ error })
JsonError(error) == [NoJson EXCEPT !.kind = "error", !.error = error]
\* the error page Express writes when a middleware calls next(err)
ErrorPage(message) == [NoJson EXCEPT !.kind = "errorPage", !.error = <<message>>]

\* no request yet
NoReq ==
    [pc |-> "none", route |-> "none", headers |-> NoHeaders, userId |-> Undefined,
     body |-> NoBody, handler |-> FALSE,
     llmPrompt |-> <<>>, llmReply |-> NoLLMReply, llmCalls |-> 0,
     finalSummary |-> <<>>,
     slackMessage |-> NoSlackMessage, slackReply |-> NoSlackReply, slackPosts |-> 0,
     responses |-> 0, status |-> 0, json |-> NoJson]

\* res.status(status).json(json); the handler (or the middleware chain) ends
Respond(r, status, json) ==
    [r EXCEPT !.pc = "done", !.responses = @ + 1, !.status = status, !.json = json]

\* the async handler returns without having written a response
ReturnSilently(r) == [r EXCEPT !.pc = "done"]

\* await of the generative-text call
CallLLM(r, prompt) ==
    [r EXCEPT !.pc = "awaitLLM", !.llmPrompt = prompt, !.llmCalls = @ + 1]

\* await of the webhook POST
PostToSlack(r, message) ==
    [r EXCEPT !.pc = "awaitSlack", !.slackMessage = message, !.slackPosts = @ + 1]

----------------------------------------------------------------------------
(* POST /summarize-single-todo *)

\* the handler up to its await: the prompt is built and the one LLM call is issued
SummarizeStart(v, r) == CallLLM(r, SummarizePrompt(v, r.body))

\* llmResult.candidates && ... && llmResult.candidates[0].content.parts.length > 0
HasCandidateText(reply) == reply.kind = "candidates"

\* llmError.response?.data?.error?.message || llmError.message
LLMErrorMessage(reply) == Val(reply.text)

SummaryOk == "Single todo summary generated successfully."
SummaryErrorHead == "Error generating summary for single todo: "

\* server.js: the continuation after await axios.post(apiUrl, ...)
SummarizeAfterLLMServer(r, reply) ==
    IF LLMFailed(reply)
    THEN Respond(r, 500, JsonError(<<SummaryErrorHead>> \o LLMErrorMessage(reply)))
    ELSE Respond(r, 200, JsonSummary(SummaryOk,
            IF HasCandidateText(reply) THEN Val(reply.text) ELSE <<StaticFallback>>))

\* part_001: the else branch assigns nothing and the catch block only logs
SummarizeAfterLLM001(r, reply) ==
    IF LLMFailed(reply)
    THEN ReturnSilently(r)
    ELSE Respond(r, 200, JsonSummary(SummaryOk,
            IF HasCandidateText(reply) THEN Val(reply.text) ELSE <<>>))

\* result.response.text() of the generative-ai client throws when the response was
\* blocked and yields the empty string when it carries no candidate
SdkTextThrows(reply) == reply.kind = "blocked"
SdkText(reply) == IF reply.kind = "candidates" THEN reply.text ELSE ""
SdkBlockedMessage == "Text not available. Response was blocked"

\* part_000: the continuation after await model.generateContent(prompt)
SummarizeAfterLLM000(r, reply) ==
    IF LLMFailed(reply)
    THEN Respond(r, 500, JsonError(<<SummaryErrorHead>> \o LLMErrorMessage(reply)))
    ELSE IF SdkTextThrows(reply)
    THEN Respond(r, 500, JsonError(<<SummaryErrorHead, SdkBlockedMessage>>))
    ELSE Respond(r, 200, JsonSummary(SummaryOk, Val(SdkText(reply))))

SummarizeAfterLLM(v, r, reply) ==
    CASE v = "server.js" -> SummarizeAfterLLMServer([r EXCEPT !.llmReply = reply], reply)
      [] v = "part_001"  -> SummarizeAfterLLM001([r EXCEPT !.llmReply = reply], reply)
      [] OTHER           -> SummarizeAfterLLM000([r EXCEPT !.llmReply = reply], reply)

----------------------------------------------------------------------------
(* POST /send-single-todo-to-slack *)

NotConfiguredMessage == "Slack Webhook URL is not configured in the backend."
CouldNotSend == "Internal server error: Could not send message to Slack."

\* the try block up to await of the POST: the URL check, then the POST is issued
NotifySend(v, url, r, message) ==
    IF WebhookUnconfigured(url)
    THEN IF v = "part_000"
         THEN Respond(r, 500, JsonError(<<CouldNotSend>>))
         ELSE Respond(r, 500, JsonError(<<"Internal server error: ", NotConfiguredMessage>>))
    ELSE PostToSlack(r, message)

\* const userAgent = req.headers['user-agent'] || 'Unknown User-Agent'
UserAgentOf(r) == OrElse(r.headers.userAgent, "Unknown User-Agent")

\* if (!text) return res.status(400)...
TextMissing(body) == Falsy(body.text)

\* mutant of NotifyStart000: the summary the caller supplied is ignored and the
\* inline summarization always runs
NotifyStart000AlwaysSummarize(url, r) ==
    IF TextMissing(r.body)
    THEN Respond(r, 400, JsonError(<<"Todo text is required.">>))
    ELSE CallLLM(r, NotifyPrompt(r.body))

\* part_000: the handler up to its first await
NotifyStart000(url, r) ==
    IF TextMissing(r.body)
    THEN Respond(r, 400, JsonError(<<"Todo text is required.">>))
    ELSE IF Falsy(r.body.summary)
    THEN CallLLM(r, NotifyPrompt(r.body))
    ELSE NotifySend("part_000", url, [r EXCEPT !.finalSummary = Val(r.body.summary)],
                    BlockSlackMessage(r.body, UserAgentOf(r), Val(r.body.summary)))

\* server.js and part_001: the handler up to its await
NotifyStartFlat(v, url, r) == NotifySend(v, url, r, FlatSlackMessage(r.body))

NotifyStart(v, url, r) ==
    IF v = "part_000" THEN NotifyStart000(url, r) ELSE NotifyStartFlat(v, url, r)

\* part_000: finalSummary after the inline summarization (try / catch)
InlineSummary(body, reply) ==
    IF LLMFailed(reply) \/ SdkTextThrows(reply)
    THEN FallbackSummary(body.text)
    ELSE Val(SdkText(reply))

\* part_000: the continuation after the inline await model.generateContent(prompt)
NotifyAfterLLM(url, r, reply) ==
    LET fs == InlineSummary(r.body, reply)
    IN  NotifySend("part_000", url, [r EXCEPT !.llmReply = reply, !.finalSummary = fs],
                   BlockSlackMessage(r.body, UserAgentOf(r), fs))

\* part_000: the continuation after await fetch(SLACK_WEBHOOK_URL, ...)
NotifyAfterSlack000(r, reply) ==
    CASE reply.kind = "ok" ->
            Respond(r, 200, JsonMessage("Todo summary sent to Slack successfully!"))
      [] reply.kind = "rejected" ->
            Respond(r, reply.status, JsonError(<<"Failed to send message to Slack: ">> \o Val(reply.body)))
      [] OTHER ->
            Respond(r, 500, JsonError(<<CouldNotSend>>))

\* slackError.message of axios for a non-2xx answer
AxiosStatusMessage(status) == <<"Request failed with status code ", ToString(status)>>

\* mutant of NotifyAfterSlackAxios: a POST that got no response is sent again
NotifyAfterSlackAxiosRetry(r, reply) ==
    CASE reply.kind = "ok" ->
            Respond(r, 200, JsonMessage("Todo sent to Slack successfully!"))
      [] reply.kind = "rejected" ->
            Respond(r, reply.status, JsonError(<<"Internal server error: ">> \o AxiosStatusMessage(reply.status)))
      [] OTHER ->
            PostToSlack(r, r.slackMessage)

\* server.js and part_001: the continuation after await axios.post(SLACK_WEBHOOK_URL, ...);
\* axios throws for a non-2xx answer, and the body of a webhook answer is text, so
\* slackError.response.data.error is undefined
NotifyAfterSlackAxios(r, reply) ==
    CASE reply.kind = "ok" ->
            Respond(r, 200, JsonMessage("Todo sent to Slack successfully!"))
      [] reply.kind = "rejected" ->
            Respond(r, reply.status, JsonError(<<"Internal server error: ">> \o AxiosStatusMessage(reply.status)))
      [] OTHER ->
            Respond(r, 500, JsonError(<<"Internal server error: ">> \o Val(reply.body)))

NotifyAfterSlack(v, r, reply) ==
    IF v = "part_000"
    THEN NotifyAfterSlack000([r EXCEPT !.slackReply = reply], reply)
    ELSE NotifyAfterSlackAxios([r EXCEPT !.slackReply = reply], reply)

----------------------------------------------------------------------------
(* The middleware chain in front of the handlers *)

CorsMessage == "The CORS policy for this site does not allow access from the specified Origin."

\* cors, bodyParser.json, the userId middleware, then the route's handler up to its
\* first await
Dispatch(v, url, route, headers, wellFormed, body) ==
    LET r0 == [NoReq EXCEPT !.route = route, !.headers = headers]
        r1 == [r0 EXCEPT !.body = body, !.userId = ResolveUserId(headers), !.handler = TRUE]
    IN  IF ~CorsAllows(v, headers.origin)
        THEN Respond(r0, 500, ErrorPage(CorsMessage))
        ELSE IF ~wellFormed
        THEN Respond(r0, 400, ErrorPage("Unexpected token in JSON"))
        ELSE IF route = "/summarize-single-todo"
        THEN SummarizeStart(v, r1)
        ELSE NotifyStart(v, url, r1)

----------------------------------------------------------------------------
(* The state machine *)

\* what the client sent, as far as the scripts read it
InputsOf(r) == <<r.route, r.headers, r.body, r.handler>>

\* a notify request passes input and configuration validation
PassesValidation(v, url, r) ==
    /\ r.route = "/send-single-todo-to-slack"
    /\ r.handler
    /\ v = "part_000" => ~Falsy(r.body.text)
    /\ ~WebhookUnconfigured(url)

NoRepeat == [is |-> FALSE, llmCalls |-> 0, slackPosts |-> 0]

Init ==
    /\ variant \in Variants
    /\ proc = "start"
    /\ exitCode = -1
    /\ attempted = <<>>
    /\ credential = "none"
    /\ SLACK_WEBHOOK_URL = Undefined
    /\ req = NoReq
    /\ arrived = 0
    /\ webhookPosts = 0
    /\ passed = 0
    /\ repeatOf = NoRepeat

\* part_000: the FIREBASE_SERVICE_ACCOUNT_KEY block.  "unset": the variable is not
\* set; "invalid": decoding, parsing or initializeApp throws
InitFromEnvBlob ==
    /\ variant = "part_000"
    /\ proc = "start"
    /\ \E blob \in {"unset", "invalid", "valid"} :
         /\ attempted' = Append(attempted, "env")
         /\ IF blob = "valid"
            THEN credential' = "env" /\ proc' = "initialized" /\ exitCode' = exitCode
            ELSE credential' = credential /\ proc' = "exited" /\ exitCode' = 1
    /\ UNCHANGED <<variant, SLACK_WEBHOOK_URL, req, arrived, webhookPosts, passed, repeatOf>>

\* server.js and part_001: initializeApp with applicationDefault()
InitFromDefault ==
    /\ variant # "part_000"
    /\ proc = "start"
    /\ \E ok \in BOOLEAN :
         /\ attempted' = Append(attempted, "default")
         /\ IF ok
            THEN credential' = "default" /\ proc' = "initialized"
            ELSE credential' = credential /\ proc' = "fallback"
    /\ UNCHANGED <<variant, exitCode, SLACK_WEBHOOK_URL, req, arrived, webhookPosts, passed, repeatOf>>

\* mutant of InitFromFile: the inner catch block does not call process.exit(1)
InitFromFileNoExit ==
    /\ proc = "fallback"
    /\ \E ok \in BOOLEAN :
         /\ attempted' = Append(attempted, "file")
         /\ credential' = IF ok THEN "file" ELSE credential
         /\ proc' = "initialized"
    /\ UNCHANGED <<variant, exitCode, SLACK_WEBHOOK_URL, req, arrived, webhookPosts, passed, repeatOf>>

\* server.js and part_001: the catch block, require('./firebaseAdminConfig.json')
InitFromFile ==
    /\ proc = "fallback"
    /\ \E ok \in BOOLEAN :
         /\ attempted' = Append(attempted, "file")
         /\ IF ok
            THEN credential' = "file" /\ proc' = "initialized" /\ exitCode' = exitCode
            ELSE credential' = credential /\ proc' = "exited" /\ exitCode' = 1
    /\ UNCHANGED <<variant, SLACK_WEBHOOK_URL, req, arrived, webhookPosts, passed, repeatOf>>

\* the rest of module load: the configuration constants and app.listen
Listen ==
    /\ proc = "initialized"
    /\ \E env \in EnvSlackUrls : SLACK_WEBHOOK_URL' = WebhookUrl(variant, env)
    /\ proc' = "listening"
    /\ UNCHANGED <<variant, exitCode, attempted, credential, req, arrived, webhookPosts, passed, repeatOf>>

\* a request arrives and runs up to the handler's first await
Arrive ==
    /\ proc = "listening"
    /\ arrived < MaxRequests
    /\ req.pc \in {"none", "done"}
    /\ \E route \in Routes, headers \in HeaderSets, wellFormed \in BOOLEAN :
         \E body \in (IF wellFormed THEN BodiesOf(route) ELSE {NoBody}) :
            LET r == Dispatch(variant, SLACK_WEBHOOK_URL, route, headers, wellFormed, body)
            IN  /\ req' = r
                /\ webhookPosts' = webhookPosts + r.slackPosts
                /\ passed' = passed + (IF PassesValidation(variant, SLACK_WEBHOOK_URL, r) THEN 1 ELSE 0)
                /\ repeatOf' = IF req.pc = "done" /\ InputsOf(r) = InputsOf(req)
                               THEN [is |-> TRUE, llmCalls |-> req.llmCalls, slackPosts |-> req.slackPosts]
                               ELSE NoRepeat
    /\ arrived' = arrived + 1
    /\ UNCHANGED <<variant, proc, exitCode, attempted, credential, SLACK_WEBHOOK_URL>>

\* the generative-text call of a summarize request settles
SummarizeLLMReturns ==
    /\ req.pc = "awaitLLM"
    /\ req.route = "/summarize-single-todo"
    /\ \E reply \in LLMReplies : req' = SummarizeAfterLLM(variant, req, reply)
    /\ UNCHANGED <<variant, proc, exitCode, attempted, credential, SLACK_WEBHOOK_URL,
                   arrived, webhookPosts, passed, repeatOf>>

\* the inline generative-text call of a notify request settles
NotifyLLMReturns ==
    /\ req.pc = "awaitLLM"
    /\ req.route = "/send-single-todo-to-slack"
    /\ \E reply \in LLMReplies :
         LET r == NotifyAfterLLM(SLACK_WEBHOOK_URL, req, reply)
         IN  /\ req' = r
             /\ webhookPosts' = webhookPosts + (r.slackPosts - req.slackPosts)
    /\ UNCHANGED <<variant, proc, exitCode, attempted, credential, SLACK_WEBHOOK_URL,
                   arrived, passed, repeatOf>>

\* the webhook POST settles
SlackReturns ==
    /\ req.pc = "awaitSlack"
    /\ \E reply \in SlackReplies :
         LET r == NotifyAfterSlack(variant, req, reply)
         IN  /\ req' = r
             /\ webhookPosts' = webhookPosts + (r.slackPosts - req.slackPosts)
    /\ UNCHANGED <<variant, proc, exitCode, attempted, credential, SLACK_WEBHOOK_URL,
                   arrived, passed, repeatOf>>

Next ==
    \/ InitFromEnvBlob
    \/ InitFromDefault
    \/ InitFromFile
    \/ Listen
    \/ Arrive
    \/ SummarizeLLMReturns
    \/ NotifyLLMReturns
    \/ SlackReturns

Spec == Init /\ [][Next]_vars

----------------------------------------------------------------------------
(* Vocabulary of the properties *)

Done == req.pc = "done"
\* the request reached the handler of the route
IsSummarize == req.handler /\ req.route = "/summarize-single-todo"
IsNotify == req.handler /\ req.route = "/send-single-todo-to-slack"
InlineLLMPending == IsNotify /\ req.pc = "awaitLLM"
WebhookFailed == req.slackReply.kind \in {"rejected", "networkError"}

IsPrefix(p, q) == Len(p) <= Len(q) /\ \A i \in 1..Len(p) : p[i] = q[i]

----------------------------------------------------------------------------
(* C1..C10 *)

\* C1: a summarize request with non-empty text makes exactly one LLM call and ends
\* answered, with 200 and a non-empty summary or with 500 and a non-empty error.
C1_SummarizeAnswered ==
    (Done /\ IsSummarize /\ ~Falsy(req.body.text)) =>
        /\ req.llmCalls = 1
        /\ req.slackPosts = 0
        /\ req.responses = 1
        /\ \/ req.status = 200 /\ req.json.kind = "summary" /\ Len(req.json.summary) > 0
           \/ req.status = 500 /\ req.json.kind = "error" /\ Len(req.json.error) > 0

\* C2: a notify request whose text is empty or omitted is answered 400
\* {error: "Todo text is required."} and issues no outbound call at all.
C2_EmptyTextRejected ==
    (IsNotify /\ Falsy(req.body.text)) =>
        /\ req.llmCalls = 0
        /\ req.slackPosts = 0
        /\ Done => (req.status = 400 /\ req.json = JsonError(<<"Todo text is required.">>))

\* C3: with the webhook URL unset or equal to the placeholder, a notify request with
\* non-empty text ends in 500 and attempts no outbound call, the inline LLM call included.
C3_UnconfiguredNoCall ==
    (IsNotify /\ ~Falsy(req.body.text) /\ WebhookUnconfigured(SLACK_WEBHOOK_URL)) =>
        /\ req.llmCalls = 0
        /\ req.slackPosts = 0
        /\ Done => req.status = 500

\* C4: whenever the inline summarization of a notify request (non-empty text, no
\* summary) has failed, the handler has gone on to issue the webhook POST, with a
\* fallback summary that contains the text.
C4_PostsAfterLLMFailure ==
    (IsNotify /\ ~Falsy(req.body.text) /\ Falsy(req.body.summary) /\ LLMFailed(req.llmReply)) =>
        /\ req.slackPosts = 1
        /\ Contains(req.slackMessage.summary, req.body.text)

\* C4 where the webhook URL is configured (the inline call is then made with reason):
\* the handler goes on to the webhook POST, and the posted text and summary field
\* carry the fallback summary, which contains the text.
C4_FallbackPostedWhenConfigured ==
    (IsNotify /\ ~Falsy(req.body.text) /\ Falsy(req.body.summary) /\ LLMFailed(req.llmReply)
       /\ ~WebhookUnconfigured(SLACK_WEBHOOK_URL)) =>
        /\ req.pc \in {"awaitSlack", "done"}
        /\ req.slackPosts = 1
        /\ req.llmCalls = 1
        /\ Contains(req.finalSummary, req.body.text)
        /\ req.finalSummary[1] = "Could not generate summary for: \""
        /\ req.slackMessage.summary = <<"*Summary:*\n">> \o req.finalSummary
        /\ Contains(req.slackMessage.text, req.body.text)
        /\ (Done /\ req.slackReply.kind = "ok") => req.status = 200

\* C5: when the webhook answers a POST with a non-2xx status S and body B, the caller
\* gets status S and an error that contains B.
C5_WebhookRejection ==
    (Done /\ req.slackReply.kind = "rejected") =>
        /\ req.status = req.slackReply.status
        /\ req.json.kind = "error"
        /\ Contains(req.json.error, req.slackReply.body)

\* C6: a request whose upstream call failed (the LLM call of summarize, the webhook
\* POST of notify) ends with exactly one response, the error envelope with a
\* non-empty error, status 500 or the webhook's own status.
C6_FailureAnswered ==
    (Done /\ ((IsSummarize /\ LLMFailed(req.llmReply)) \/ (IsNotify /\ WebhookFailed))) =>
        /\ req.responses = 1
        /\ req.json.kind = "error"
        /\ Len(req.json.error) > 0
        /\ \/ req.status = 500
           \/ req.slackReply.kind = "rejected" /\ req.status = req.slackReply.status

\* C7: when the LLM call of summarize succeeds but the answer lacks the nested
\* fields, the response is 200 with the static fallback summary.
C7_StaticFallback ==
    (Done /\ IsSummarize /\ req.llmReply.kind \in {"noCandidates", "blocked"}) =>
        /\ req.status = 200
        /\ req.json.kind = "summary"
        /\ req.json.summary = <<StaticFallback>>

C9_Original ==
    /\ IsPrefix(attempted, <<"env", "default", "file">>)
    /\ credential # "none" => credential = attempted[Len(attempted)]
    /\ proc = "exited" => attempted = <<"env", "default", "file">>

\* C9 as amended: each script consults only its own sources (the env blob alone in
\* part_000, the ambient default and then the file in server.js and part_001), in that
\* order; the first that succeeds is used and none after it is consulted; when all
\* of them fail the process exits with status 1 and never serves a request.
C9_CredentialOrder ==
    /\ IsPrefix(attempted, CredentialSources(variant))
    /\ credential # "none" => (attempted # <<>> /\ credential = attempted[Len(attempted)])
    /\ (proc \in {"initialized", "listening"} \/ arrived > 0) => credential # "none"
    /\ exitCode # -1 => proc = "exited"
    /\ proc = "exited" =>
          /\ exitCode = 1
          /\ credential = "none"
          /\ attempted = CredentialSources(variant)
          /\ arrived = 0 /\ req = NoReq

C9_Witness ==
    /\ variant = "server.js" /\ proc = "exited" /\ exitCode = 1
    /\ attempted = <<"default", "file">>

\* C10: under the allow-list policy (part_000) a request without Origin or with a
\* listed Origin passes the cors middleware; any other Origin is answered with the
\* policy error, never reaches a handler and causes no outbound call.
C10_AllowList ==
    (variant = "part_000" /\ req.pc # "none") =>
        IF req.headers.origin = Undefined
           \/ req.headers.origin \in {"http://localhost:3000",
                                      "https://frontefront-7m2yrofu6-lokeshas-projects.vercel.app"}
        THEN req.json # ErrorPage(CorsMessage)
        ELSE /\ Done /\ req.responses = 1
             /\ req.status = 500 /\ req.json = ErrorPage(CorsMessage)
             /\ ~req.handler
             /\ req.llmCalls = 0 /\ req.slackPosts = 0

C10_Witness ==
    /\ variant = "part_000" /\ Done
    /\ req.headers.origin = OtherOrigin
    /\ req.status = 500 /\ ~req.handler

----------------------------------------------------------------------------
(* C11..C12 *)

\* the caller identity a posted message names: the piece after "New Todo Update
\* from" / "New Todo Alert for User" of its text
IdentityIn(message) == message.text[2]

\* C11: the caller identity in the posted chat message is the resolved caller id:
\* the x-user-id header when present, otherwise "anonymous".
C11_CallerIdentity ==
    (IsNotify /\ req.slackPosts >= 1) =>
        IdentityIn(req.slackMessage) =
            (IF req.headers.xUserId = Undefined THEN "anonymous" ELSE req.headers.xUserId)

\* C12: a notify request with non-empty text and a non-empty supplied summary makes
\* no LLM call; its only outbound call is the single webhook POST (none when the
\* webhook URL is not configured), and the posted message carries exactly the
\* supplied summary.
C12_SuppliedSummary ==
    (IsNotify /\ ~Falsy(req.body.text) /\ ~Falsy(req.body.summary)) =>
        /\ req.llmCalls = 0
        /\ req.llmPrompt = <<>>
        /\ req.pc \in {"awaitSlack", "done"}
        /\ req.slackPosts = IF WebhookUnconfigured(SLACK_WEBHOOK_URL) THEN 0 ELSE 1
        /\ req.slackPosts = 1 =>
              LET text == req.slackMessage.text
                  n == Len(text)
              IN  IF variant = "part_000"
                  THEN /\ req.slackMessage.summary = <<"*Summary:*\n", req.body.summary>>
                       /\ text[n] = req.body.summary
                       /\ text[n - 1] = "):*\n"
                  ELSE /\ n >= 3
                       /\ <<text[n - 2], text[n - 1], text[n]>> = <<"*Summary*: ", req.body.summary, "\n">>

C12_Witness ==
    /\ variant = "part_000" /\ IsNotify /\ Done
    /\ req.body.text = "Buy milk" /\ req.body.summary = "Get milk today"
    /\ req.llmCalls = 0 /\ req.slackPosts = 1
    /\ req.status = 200
    /\ req.slackMessage.summary = <<"*Summary:*\n", "Get milk today">>

====
